---- MODULE Spec2Model ----
(***************************************************************************)
(* News-sentiment feature aggregation of the XAUUSD trading pipeline:      *)
(* NewsSentimentFeatures (src/src/features/news_features.py), and the      *)
(* sentiment scoring of NewsCollector                                      *)
(* (src/src/data_collection/news_collector.py).                            *)
(*                                                                         *)
(* Time is counted in whole hours.  A timestamp cell is a record           *)
(* [kind, v]: kind "ts" with v the hour (the wall-clock hour of a naive    *)
(* value, the UTC instant of a timezone-aware one), kind "NaT" for         *)
(* pandas' missing timestamp, kind "bad" for a raw value pd.to_datetime    *)
(* cannot parse.  A float is a fraction [n, d] with d > 0 in lowest terms; *)
(* d = 0 is NaN.  Polarities are counted in tenths (0.5 is 5), except in   *)
(* the scoring of one text, where they are counted in units of 1/100000    *)
(* so that values next to the 0.1 thresholds can be told apart.            *)
(***************************************************************************)
EXTENDS Integers, Sequences, FiniteSets, TLC

VARIABLES
    news_file,   \* the CSV file load_news reads: [readable, rows, tz]
    news_data,   \* self.news_data: [loaded, frame]
    call,        \* the last operation called, with its arguments
    snapshot,    \* what the last aggregate_sentiment call returned
    out,         \* what the last frame-returning call did: [status, frame]
    sentiment_analyzer,  \* NewsCollector.sentiment_analyzer: the FinBERT pipeline or None
    analysed,    \* the analyze_sentiment calls made so far: [method, result]
    caller,      \* the caller's own input frames as the last call left them
    earlier,     \* the call before the last one: [call, out, snapshot]
    collector,   \* the MT5Collector the last operation worked on: [connected, symbol_info]
    mt5_last,    \* the last MT5Collector operation: its result and MetaTrader5 calls
    mt5,         \* [established, ops]: whether a session was fully set up, operations so far
    now,         \* the clock, in minutes
    updater,     \* the NewsAutoUpdater: [interval_minutes, update_count, total_articles]
    master_file, \* data/news/news_master.csv: Absent or its rows
    daily_file,  \* data/news/news_daily_<date>.csv: Absent or its rows
    upd_last,    \* the last NewsAutoUpdater operation and where the run loop stands
    lookbacks,   \* the time range each update_once asked for, in order
    tf_row,      \* the timestamp TimeFeatures is given: its calendar fields
    tf_out       \* the special-period columns computed for it

feat_vars == <<news_file, news_data, call, snapshot, out,
               sentiment_analyzer, analysed, caller, earlier>>
mt5_vars == <<collector, mt5_last, mt5>>
upd_vars == <<now, updater, master_file, daily_file, upd_last, lookbacks>>
tf_vars == <<tf_row, tf_out>>
vars == <<feat_vars, mt5_vars, upd_vars, tf_vars>>

----------------------------------------------------------------------------
(* Bounds and input domains *)

MaxNews == 2
MaxRows == 2

Naive == "naive"
TzChoices == {Naive, "UTC", "+01:00"}
TimeChoices == {0, 12, 13}
WindowChoices == {1, 12, 24}

Ts(v) == [kind |-> "ts", v |-> v]
NaT == [kind |-> "NaT", v |-> 0]
BadTs == [kind |-> "bad", v |-> 0]

\* What NewsCollector.analyze_sentiment can attach to an article.
EventKinds ==
    { [polarity |-> 5, sentiment |-> "positive"],
      [polarity |-> -5, sentiment |-> "negative"],
      [polarity |-> 0, sentiment |-> "neutral"],
      [polarity |-> 1, sentiment |-> "neutral"] }

Events ==
    { [timestamp |-> Ts(t), polarity |-> k.polarity, sentiment |-> k.sentiment] :
        t \in TimeChoices, k \in EventKinds }

SeqsUpTo(S, n) == UNION { [1..k -> S] : k \in 0..n }

----------------------------------------------------------------------------
(* Floats *)

Abs(x) == IF x < 0 THEN -x ELSE x

RECURSIVE GCD(_, _)
GCD(a, b) == IF b = 0 THEN a ELSE GCD(b, a % b)

NaN == [n |-> 0, d |-> 0]
Frac(n, d) ==
    IF d = 0 THEN NaN
    ELSE LET g == GCD(Abs(n), Abs(d))
             s == IF d < 0 THEN -1 ELSE 1
         IN  [n |-> (s * n) \div g, d |-> (s * d) \div g]
Float(i) == [n |-> i, d |-> 1]
IsNaN(x) == x.d = 0
FSub(a, b) == IF IsNaN(a) \/ IsNaN(b) THEN NaN ELSE Frac(a.n * b.d - b.n * a.d, a.d * b.d)
FAdd(a, b) == IF IsNaN(a) \/ IsNaN(b) THEN NaN ELSE Frac(a.n * b.d + b.n * a.d, a.d * b.d)
FLeq(a, b) == ~IsNaN(a) /\ ~IsNaN(b) /\ a.n * b.d <= b.n * a.d

----------------------------------------------------------------------------
(* Sequence helpers *)

RECURSIVE SumSeq(_)
SumSeq(s) == IF s = <<>> THEN 0 ELSE Head(s) + SumSeq(Tail(s))

RECURSIVE MaxSeqSwapped(_)
\* polarities.max() with the comparison turned round
MaxSeqSwapped(s) ==
    IF Len(s) = 1 THEN s[1]
    ELSE LET m == MaxSeqSwapped(Tail(s)) IN IF s[1] <= m THEN s[1] ELSE m

RECURSIVE MaxSeq(_)
MaxSeq(s) ==
    IF Len(s) = 1 THEN s[1]
    ELSE LET m == MaxSeq(Tail(s)) IN IF s[1] >= m THEN s[1] ELSE m

\* the first polarity of the window in place of polarities.min()
MinSeqFirst(s) == s[1]

RECURSIVE MinSeq(_)
MinSeq(s) ==
    IF Len(s) = 1 THEN s[1]
    ELSE LET m == MinSeq(Tail(s)) IN IF s[1] <= m THEN s[1] ELSE m

RECURSIVE SelectMask(_, _)
\* df[mask]: the rows whose mask entry is TRUE, in order
SelectMask(s, mask) ==
    IF s = <<>> THEN <<>>
    ELSE (IF Head(mask) THEN <<Head(s)>> ELSE <<>>) \o SelectMask(Tail(s), Tail(mask))

CountEq(s, x) == Cardinality({ i \in 1..Len(s) : s[i] = x })

----------------------------------------------------------------------------
(* Frames of news *)

\* pd.DataFrame(): no rows and no columns
NoColumns == [has_columns |-> FALSE, rows |-> <<>>, tz |-> Naive]
NewsFrame(rows, tz) == [has_columns |-> TRUE, rows |-> rows, tz |-> tz]

TzOffset(tz) == IF tz = "+01:00" THEN 1 ELSE 0

----------------------------------------------------------------------------
(* aggregate_sentiment *)

\* lines 68-75 with a naive query localized to the +01:00 zone instead of UTC
NormalizeTimestampLocal(df_news, timestamp, tz) ==
    IF df_news.tz # Naive
    THEN IF tz = Naive /\ timestamp.kind = "ts"
         THEN [t |-> Ts(timestamp.v - 1), tz |-> "+01:00"]
         ELSE [t |-> timestamp, tz |-> tz]
    ELSE IF tz # Naive /\ timestamp.kind = "ts"
         THEN [t |-> Ts(timestamp.v + TzOffset(tz)), tz |-> Naive]
         ELSE [t |-> timestamp, tz |-> Naive]

\* lines 72-75 with the aware query converted to UTC before its zone is dropped
NormalizeTimestampConverted(df_news, timestamp, tz) ==
    IF df_news.tz # Naive
    THEN IF tz = Naive \/ timestamp.kind = "NaT"
         THEN [t |-> timestamp, tz |-> IF timestamp.kind = "NaT" THEN Naive ELSE "UTC"]
         ELSE [t |-> timestamp, tz |-> tz]
    ELSE [t |-> timestamp, tz |-> Naive]

\* lines 68-75: the query timestamp, made to agree with the news column's
\* awareness.  NaT has no tzinfo and stays NaT.
NormalizeTimestamp(df_news, timestamp, tz) ==
    IF df_news.tz # Naive
    THEN IF tz = Naive \/ timestamp.kind = "NaT"
         THEN [t |-> timestamp, tz |-> IF timestamp.kind = "NaT" THEN Naive ELSE "UTC"]
         ELSE [t |-> timestamp, tz |-> tz]
    ELSE IF tz # Naive /\ timestamp.kind = "ts"
         THEN [t |-> Ts(timestamp.v + TzOffset(tz)), tz |-> Naive]
         ELSE [t |-> timestamp, tz |-> Naive]

\* lines 79-81 with the upper comparison strict
WindowMaskUpperStrict(df_news, t, window_hours) ==
    [ i \in 1..Len(df_news.rows) |->
        /\ t.kind = "ts"
        /\ df_news.rows[i].timestamp.kind = "ts"
        /\ df_news.rows[i].timestamp.v >= t.v - window_hours
        /\ df_news.rows[i].timestamp.v < t.v ]

\* lines 79-81 with the lower comparison strict
WindowMaskStrict(df_news, t, window_hours) ==
    [ i \in 1..Len(df_news.rows) |->
        /\ t.kind = "ts"
        /\ df_news.rows[i].timestamp.kind = "ts"
        /\ df_news.rows[i].timestamp.v > t.v - window_hours
        /\ df_news.rows[i].timestamp.v <= t.v ]

\* lines 78-81: start_time = timestamp - window; start_time <= ts <= timestamp
\* (a comparison with NaT is False)
WindowMask(df_news, t, window_hours) ==
    [ i \in 1..Len(df_news.rows) |->
        /\ t.kind = "ts"
        /\ df_news.rows[i].timestamp.kind = "ts"
        /\ df_news.rows[i].timestamp.v >= t.v - window_hours
        /\ df_news.rows[i].timestamp.v <= t.v ]

\* lines 85-97
EmptySnapshot ==
    [ news_count |-> 0, sentiment_avg |-> Float(0), sentiment_sum |-> Float(0),
      sentiment_max |-> Float(0), sentiment_min |-> Float(0), sentiment_std |-> Float(0),
      positive_count |-> 0, negative_count |-> 0, neutral_count |-> 0,
      positive_ratio |-> Float(0), negative_ratio |-> Float(0) ]

\* polarities.std(): the sample standard deviation (ddof = 1), kept as its
\* square; NaN for fewer than two values
StdSquared(p) ==
    LET n == Len(p)
        sq == [ i \in 1..n |-> p[i] * p[i] ]
    IN  Frac(n * SumSeq(sq) - SumSeq(p) * SumSeq(p), n * (n - 1))

\* lines 103-105 with the labels compared case-sensitively against
\* capitalised names for the neutral category
TallyCapitalised(sentiments, label) ==
    CountEq(sentiments, IF label = "neutral" THEN "Neutral" ELSE label)

\* lines 103-105: (sentiments == label).sum()
Tally(sentiments, label) == CountEq(sentiments, label)

\* lines 118-119 giving the share in percent
RatioPercent(count, total_count) ==
    IF total_count > 0 THEN Frac(100 * count, total_count) ELSE Float(0)

\* lines 118-119: count / total_count if total_count > 0 else 0.0
Ratio(count, total_count) ==
    IF total_count > 0 THEN Frac(count, total_count) ELSE Float(0)

\* lines 100-120 on a window; on no rows mean/max/min are NaN
WindowStatistics(news_window) ==
    LET polarities == [ i \in 1..Len(news_window) |-> news_window[i].polarity ]
        sentiments == [ i \in 1..Len(news_window) |-> news_window[i].sentiment ]
        positive_count == Tally(sentiments, "positive")
        negative_count == Tally(sentiments, "negative")
        neutral_count == Tally(sentiments, "neutral")
        total_count == Len(news_window)
    IN  [ news_count |-> total_count,
          sentiment_avg |-> Frac(SumSeq(polarities), total_count),
          sentiment_sum |-> Float(SumSeq(polarities)),
          sentiment_max |-> IF total_count = 0 THEN NaN ELSE Float(MaxSeq(polarities)),
          sentiment_min |-> IF total_count = 0 THEN NaN ELSE Float(MinSeq(polarities)),
          sentiment_std |-> IF total_count > 1 THEN StdSquared(polarities) ELSE Float(0),
          positive_count |-> positive_count,
          negative_count |-> negative_count,
          neutral_count |-> neutral_count,
          positive_ratio |-> Ratio(positive_count, total_count),
          negative_ratio |-> Ratio(negative_count, total_count) ]

\* lines 84-120 without the len(news_window) == 0 return
SnapshotOfUnguarded(news_window) == WindowStatistics(news_window)

\* lines 84-120
SnapshotOf(news_window) ==
    IF Len(news_window) = 0 THEN EmptySnapshot ELSE WindowStatistics(news_window)

\* df_news["timestamp"] on a frame without that column raises KeyError
AggregateRaises(df_news) == ~df_news.has_columns

\* lines 67-120; only where ~AggregateRaises(df_news)
aggregate_sentiment(df_news, timestamp, tz, window_hours) ==
    LET q == NormalizeTimestamp(df_news, timestamp, tz)
        mask == WindowMask(df_news, q.t, window_hours)
    IN  SnapshotOf(SelectMask(df_news.rows, mask))

----------------------------------------------------------------------------
(* Data frames: index labels, column names, and one sequence of values per *)
(* column (data[k][i] is column k at row position i).                      *)

Col(name) == [window |-> 0, field |-> name]
FeatCol(w, f) == [window |-> w, field |-> f]

\* lines 108-120 with the last key left out
SnapshotFieldsShort ==
    << "news_count", "sentiment_avg", "sentiment_sum", "sentiment_max", "sentiment_min",
       "sentiment_std", "positive_count", "negative_count", "neutral_count",
       "positive_ratio" >>

\* the keys of the dict aggregate_sentiment returns, in order (lines 108-120)
SnapshotFields ==
    << "news_count", "sentiment_avg", "sentiment_sum", "sentiment_max", "sentiment_min",
       "sentiment_std", "positive_count", "negative_count", "neutral_count",
       "positive_ratio", "negative_ratio" >>

CountFields == {"news_count", "positive_count", "negative_count", "neutral_count"}

\* a snapshot's value as a frame cell (the counts become numbers of the column)
SnapshotCell(snap, f) == IF f \in CountFields THEN Float(snap[f]) ELSE snap[f]

Range(s) == { s[i] : i \in 1..Len(s) }
HasCol(df, c) == c \in Range(df.names)
ColPos(df, c) == CHOOSE k \in 1..Len(df.names) : df.names[k] = c
Column(df, c) == df.data[ColPos(df, c)]
NRows(df) == Len(df.index)
RangeIndex(n) == [ i \in 1..n |-> i - 1 ]
IsTimeCol(c) == c \in {Col("timestamp"), Col("time")}

\* df[c] = values: replaces the column when it exists, else appends it
SetColumn(df, c, values) ==
    IF HasCol(df, c)
    THEN [df EXCEPT !.data[ColPos(df, c)] = values]
    ELSE [df EXCEPT !.names = Append(@, c), !.data = Append(@, values)]

\* the price frame a caller passes: a "close" column and the timestamp
\* columns of its kind ("timestamp", "time", "both", "none")
PriceFrame(kind, index, cells) ==
    LET n == Len(index)
        close == [ i \in 1..n |-> Float(100 + i) ]
        names == (IF kind \in {"time", "both"} THEN <<Col("time")>> ELSE <<>>)
                 \o (IF kind \in {"timestamp", "both"} THEN <<Col("timestamp")>> ELSE <<>>)
                 \o <<Col("close")>>
    IN  [ index |-> index,
          names |-> names,
          data |-> [ k \in 1..Len(names) |-> IF names[k] = Col("close") THEN close ELSE cells ] ]

EmptyFrame == [index |-> <<>>, names |-> <<>>, data |-> <<>>]

Returned(df) == [status |-> "returned", error |-> "", frame |-> df]
Raised(e) == [status |-> "raised", error |-> e, frame |-> EmptyFrame]
NoOut == [status |-> "none", error |-> "", frame |-> EmptyFrame]

----------------------------------------------------------------------------
(* add_sentiment_features *)

\* pd.to_datetime on a column raises when a value cannot be parsed
ToDatetimeRaises(cells) == \E i \in 1..Len(cells) : cells[i].kind = "bad"

RECURSIVE SortedSeq(_)
\* the elements of a set of integers in increasing order
SortedSeq(S) ==
    IF S = {} THEN <<>>
    ELSE LET m == CHOOSE x \in S : \A y \in S : x <= y
         IN  <<m>> \o SortedSeq(S \ {m})

HasDuplicates(s) == \E i, j \in 1..Len(s) : i # j /\ s[i] = s[j]

\* line 165: pd.DataFrame(features), one row per snapshot under a RangeIndex;
\* line 168: its columns prefixed with the window.  No snapshots, no columns.
FeatureFrame(features, window) ==
    IF Len(features) = 0 THEN EmptyFrame
    ELSE [ index |-> RangeIndex(Len(features)),
           names |-> [ k \in 1..Len(SnapshotFields) |-> FeatCol(window, SnapshotFields[k]) ],
           data |-> [ k \in 1..Len(SnapshotFields) |->
                        [ i \in 1..Len(features) |-> SnapshotCell(features[i], SnapshotFields[k]) ] ] ]

\* pd.concat([df, df_features], axis=1) raises on a duplicated label when it
\* has to reindex
ConcatRaises(df, df_features) ==
    /\ Len(df_features.names) > 0
    /\ df.index # df_features.index
    /\ HasDuplicates(df.index)

\* line 171 with the features attached by row position
ConcatColumnsPositional(df, df_features) ==
    [ index |-> df.index,
      names |-> df.names \o df_features.names,
      data |-> df.data \o df_features.data ]

\* line 171: pd.concat([df, df_features], axis=1) joins the two frames on
\* their index labels: the result's index is the union of the labels (those
\* of df, then the others), and a frame with no row for a label gives
\* missing values there
ConcatColumns(df, df_features) ==
    IF Len(df_features.names) = 0 THEN df
    ELSE IF df.index = df_features.index
    THEN ConcatColumnsPositional(df, df_features)
    ELSE LET n == NRows(df)
             extra == SortedSeq(Range(df_features.index) \ Range(df.index))
             union == df.index \o extra
             pos(label) == CHOOSE i \in 1..Len(df_features.index) : df_features.index[i] = label
         IN  [ index |-> union,
               names |-> df.names \o df_features.names,
               data |->
                 [ k \in 1..Len(df.names) |->
                     [ p \in 1..Len(union) |->
                         IF p <= n THEN df.data[k][p]
                         ELSE IF IsTimeCol(df.names[k]) THEN NaT ELSE NaN ] ]
                 \o
                 [ k \in 1..Len(df_features.names) |->
                     [ p \in 1..Len(union) |->
                         IF union[p] \in Range(df_features.index)
                         THEN df_features.data[k][pos(union[p])]
                         ELSE NaN ] ] ]

RECURSIVE AddWindows(_, _, _, _)
\* lines 155-176: one pass of the loop per window, then the return
AddWindows(df, df_tz, df_news, windows) ==
    IF windows = <<>> THEN Returned(df)
    ELSE LET window == Head(windows)
             stamps == Column(df, Col("timestamp"))
         IN  IF NRows(df) > 0 /\ AggregateRaises(df_news) THEN Raised("KeyError")
             ELSE LET features == [ i \in 1..NRows(df) |->
                                      aggregate_sentiment(df_news, stamps[i], df_tz, window) ]
                      df_features == FeatureFrame(features, window)
                  IN  IF ConcatRaises(df, df_features) THEN Raised("InvalidIndexError")
                      ELSE AddWindows(ConcatColumns(df, df_features), df_tz, df_news, Tail(windows))

\* lines 139-176 without the return of lines 146-148: the loop's
\* df["timestamp"] then raises KeyError
add_sentiment_features_no_return(df_price, df_tz, df_news, windows) ==
    IF ~HasCol(df_price, Col("timestamp")) /\ HasCol(df_price, Col("time"))
    THEN IF ToDatetimeRaises(Column(df_price, Col("time"))) THEN Raised("ValueError")
         ELSE AddWindows(SetColumn(df_price, Col("timestamp"), Column(df_price, Col("time"))),
                         df_tz, df_news, windows)
    ELSE IF HasCol(df_price, Col("timestamp"))
    THEN IF ToDatetimeRaises(Column(df_price, Col("timestamp"))) THEN Raised("ValueError")
         ELSE AddWindows(df_price, df_tz, df_news, windows)
    ELSE Raised("KeyError")

\* lines 139-176 reading the events from self.news_data once load_news has
\* filled it, instead of from the df_news argument
add_sentiment_features_cached(df_price, df_tz, df_news, windows) ==
    LET events == IF news_data.loaded THEN news_data.frame ELSE df_news IN
    IF ~HasCol(df_price, Col("timestamp")) /\ HasCol(df_price, Col("time"))
    THEN IF ToDatetimeRaises(Column(df_price, Col("time"))) THEN Raised("ValueError")
         ELSE AddWindows(SetColumn(df_price, Col("timestamp"), Column(df_price, Col("time"))),
                         df_tz, events, windows)
    ELSE IF HasCol(df_price, Col("timestamp"))
    THEN IF ToDatetimeRaises(Column(df_price, Col("timestamp"))) THEN Raised("ValueError")
         ELSE AddWindows(df_price, df_tz, events, windows)
    ELSE Returned(df_price)

\* lines 139-176
add_sentiment_features(df_price, df_tz, df_news, windows) ==
    IF ~HasCol(df_price, Col("timestamp")) /\ HasCol(df_price, Col("time"))
    THEN IF ToDatetimeRaises(Column(df_price, Col("time"))) THEN Raised("ValueError")
         ELSE AddWindows(SetColumn(df_price, Col("timestamp"), Column(df_price, Col("time"))),
                         df_tz, df_news, windows)
    ELSE IF HasCol(df_price, Col("timestamp"))
    THEN IF ToDatetimeRaises(Column(df_price, Col("timestamp"))) THEN Raised("ValueError")
         ELSE AddWindows(df_price, df_tz, df_news, windows)
    ELSE Returned(df_price)

----------------------------------------------------------------------------
(* add_sentiment_momentum and merge_price_and_news *)

RollingWindow == 10
MinPeriods == 1

\* Series.diff() with the first value filled with zero
DiffFilled(x) == [ i \in 1..Len(x) |-> IF i = 1 THEN Float(0) ELSE FSub(x[i], x[i - 1]) ]

\* Series.diff(): the first value is missing
Diff(x) == [ i \in 1..Len(x) |-> IF i = 1 THEN NaN ELSE FSub(x[i], x[i - 1]) ]

RECURSIVE FSum(_)
FSum(s) == IF s = <<>> THEN Float(0) ELSE FAdd(Head(s), FSum(Tail(s)))

\* Series.rolling(window=10, min_periods=1).mean(): the mean of the values
\* present among the last 10 rows, missing when fewer than min_periods are
RollingMean(x) ==
    [ i \in 1..Len(x) |->
        LET lo == IF i - RollingWindow + 1 < 1 THEN 1 ELSE i - RollingWindow + 1
            present == SelectMask([ j \in 1..(i - lo + 1) |-> x[lo + j - 1] ],
                                  [ j \in 1..(i - lo + 1) |-> ~IsNaN(x[lo + j - 1]) ])
            s == FSum(present)
        IN  IF Len(present) < MinPeriods THEN NaN
            ELSE Frac(s.n, s.d * Len(present)) ]

\* lines 191-211 with the three columns created, all missing, when the
\* sentiment_avg column is absent
add_sentiment_momentum_filling(df, window) ==
    LET avg == IF HasCol(df, FeatCol(window, "sentiment_avg"))
               THEN Column(df, FeatCol(window, "sentiment_avg"))
               ELSE [ i \in 1..NRows(df) |-> NaN ]
        df1 == SetColumn(df, FeatCol(window, "sentiment_momentum"), Diff(avg))
        df2 == SetColumn(df1, FeatCol(window, "sentiment_trend"), RollingMean(avg))
    IN  SetColumn(df2, FeatCol(window, "sentiment_acceleration"), Diff(Diff(avg)))

\* lines 191-211
add_sentiment_momentum(df, window) ==
    IF ~HasCol(df, FeatCol(window, "sentiment_avg")) THEN df
    ELSE LET avg == Column(df, FeatCol(window, "sentiment_avg"))
             df1 == SetColumn(df, FeatCol(window, "sentiment_momentum"), Diff(avg))
             df2 == SetColumn(df1, FeatCol(window, "sentiment_trend"), RollingMean(avg))
         IN  SetColumn(df2, FeatCol(window, "sentiment_acceleration"), Diff(Diff(avg)))

RECURSIVE AddMomentum(_, _)
\* lines 238-239
AddMomentum(df, windows) ==
    IF windows = <<>> THEN df
    ELSE AddMomentum(add_sentiment_momentum(df, Head(windows)), Tail(windows))

\* load_news, lines 39-51: the frame it returns
LoadNewsResult(file) ==
    IF file.readable THEN NewsFrame(file.rows, file.tz) ELSE NoColumns

\* DataFrame.empty: no rows or no columns
IsEmpty(df_news) == ~df_news.has_columns \/ Len(df_news.rows) = 0

\* lines 230-232 with the early return removed
merge_price_and_news_no_skip(df_price, df_tz, file, windows) ==
    LET added == add_sentiment_features(df_price, df_tz, LoadNewsResult(file), windows)
    IN  IF added.status = "raised" THEN added
        ELSE Returned(AddMomentum(added.frame, windows))

\* lines 227-241
merge_price_and_news(df_price, df_tz, file, windows) ==
    LET df_news == LoadNewsResult(file) IN
    IF IsEmpty(df_news) THEN Returned(df_price)
    ELSE LET added == add_sentiment_features(df_price, df_tz, df_news, windows)
         IN  IF added.status = "raised" THEN added
             ELSE Returned(AddMomentum(added.frame, windows))

----------------------------------------------------------------------------
(* NewsCollector.analyze_sentiment.  A text is given by what the libraries *)
(* make of it: TextBlob's polarity or its failure, and the FinBERT         *)
(* pipeline's top label with its score or its failure.                     *)

PolarityScale == 100000
Threshold == PolarityScale \div 10
None == "None"

TextBlobError == [kind |-> "error", polarity |-> 0]
TextBlobPolarity(p) == [kind |-> "polarity", polarity |-> p]
FinbertError == [kind |-> "error", label |-> "neutral", score |-> 0]
FinbertLabel(l, sc) == [kind |-> "label", label |-> l, score |-> sc]

\* lines 192-218 with the thresholds inclusive
analyze_sentiment_textblob_inclusive(tb) ==
    IF tb.kind = "error"
    THEN [sentiment |-> "neutral", polarity |-> 0, method |-> "textblob"]
    ELSE [ sentiment |-> IF tb.polarity >= Threshold THEN "positive"
                         ELSE IF tb.polarity <= -Threshold THEN "negative"
                         ELSE "neutral",
           polarity |-> tb.polarity, method |-> "textblob" ]

\* lines 192-218 (the subjectivity is left out)
analyze_sentiment_textblob(tb) ==
    IF tb.kind = "error"
    THEN [sentiment |-> "neutral", polarity |-> 0, method |-> "textblob"]
    ELSE [ sentiment |-> IF tb.polarity > Threshold THEN "positive"
                         ELSE IF tb.polarity < -Threshold THEN "negative"
                         ELSE "neutral",
           polarity |-> tb.polarity, method |-> "textblob" ]

\* lines 230-258 (the confidence is left out)
analyze_sentiment_finbert(analyzer, tb, fb) ==
    IF analyzer = None THEN analyze_sentiment_textblob(tb)
    ELSE IF fb.kind = "error" THEN analyze_sentiment_textblob(tb)
    ELSE [ sentiment |-> fb.label,
           polarity |-> IF fb.label = "positive" THEN fb.score
                        ELSE IF fb.label = "negative" THEN -fb.score
                        ELSE 0,
           method |-> "finbert" ]

\* lines 271-274
analyze_sentiment(analyzer, tb, fb, method) ==
    IF method = "finbert" \/ (method = "auto" /\ analyzer # None)
    THEN analyze_sentiment_finbert(analyzer, tb, fb)
    ELSE analyze_sentiment_textblob(tb)

----------------------------------------------------------------------------
(* The caller's frames.  add_sentiment_features works on df, bound at line *)
(* 139; a binding names the object it refers to and that object's value.   *)

\* line 139 without the copy: df is the caller's own frame
FrameAlias(df_price) == [object |-> "df_price", frame |-> df_price]

\* line 139: df = df_price.copy()
FrameCopy(df_price) == [object |-> "copy", frame |-> df_price]

\* lines 142-145: the assignments df["timestamp"] = ... made through the
\* binding, as the caller's frame sees them (none when to_datetime raises)
PriceAfterCall(df_price) ==
    LET df == FrameCopy(df_price) IN
    IF /\ df.object = "df_price"
       /\ ~HasCol(df_price, Col("timestamp")) /\ HasCol(df_price, Col("time"))
       /\ ~ToDatetimeRaises(Column(df_price, Col("time")))
    THEN SetColumn(df_price, Col("timestamp"), Column(df_price, Col("time")))
    ELSE df_price

\* lines 63-81, 84, 100-105: df_news is only read (df_news[mask] is a new frame)
NewsAfterCall(df_news) == df_news

----------------------------------------------------------------------------
(* MT5Collector (src/src/data_collection/mt5_collector.py) and             *)
(* collect_timeframe (src/collect_all_timeframes.py).  A collector is      *)
(* [connected, symbol_info]; what the environment and the MetaTrader5      *)
(* library answer during one operation is an env record; an operation      *)
(* gives the collector afterwards, its result, the MetaTrader5 calls it    *)
(* made in order, and whether it raised.                                   *)

FreshCollector == [connected |-> FALSE, symbol_info |-> "None"]

DefaultEnv ==
    [ credentials |-> "ok", init_ok |-> TRUE, account_ok |-> TRUE, info |-> "visible",
      select_ok |-> TRUE, info_again |-> "visible", rates |-> "bars", later_raises |-> FALSE ]

Ret(self, result, calls) == [self |-> self, result |-> result, calls |-> calls, raised |-> FALSE]
Exc(self, calls) == [self |-> self, result |-> "None", calls |-> calls, raised |-> TRUE]

\* lines 77-122 with the connected flag set as soon as mt5.initialize succeeds
initialize_eager(self, env) ==
    IF env.credentials # "ok" THEN Ret(self, "False", <<>>)
    ELSE IF ~env.init_ok THEN Ret(self, "False", <<"initialize", "last_error">>)
    ELSE IF ~env.account_ok
    THEN Ret([self EXCEPT !.connected = TRUE], "False", <<"initialize", "account_info", "shutdown">>)
    ELSE Ret([self EXCEPT !.connected = TRUE], "True", <<"initialize", "account_info">>)

\* lines 77-122
initialize(self, env) ==
    IF env.credentials # "ok" THEN Ret(self, "False", <<>>)
    ELSE IF ~env.init_ok THEN Ret(self, "False", <<"initialize", "last_error">>)
    ELSE IF ~env.account_ok
    THEN Ret(self, "False", <<"initialize", "account_info", "shutdown">>)
    ELSE Ret([self EXCEPT !.connected = TRUE], "True", <<"initialize", "account_info">>)

\* lines 131-155; a symbol_info that comes back None after symbol_select
\* makes line 151 raise AttributeError
check_symbol(self, env) ==
    IF ~self.connected THEN Ret(self, "False", <<>>)
    ELSE IF env.info = "None"
    THEN Ret([self EXCEPT !.symbol_info = "None"], "False", <<"symbol_info">>)
    ELSE IF env.info = "hidden"
    THEN IF ~env.select_ok
         THEN Ret([self EXCEPT !.symbol_info = "hidden"], "False",
                  <<"symbol_info", "symbol_select">>)
         ELSE IF env.info_again = "None"
         THEN Exc([self EXCEPT !.symbol_info = "None"],
                  <<"symbol_info", "symbol_select", "symbol_info">>)
         ELSE Ret([self EXCEPT !.symbol_info = env.info_again], "True",
                  <<"symbol_info", "symbol_select", "symbol_info">>)
    ELSE Ret([self EXCEPT !.symbol_info = "visible"], "True", <<"symbol_info">>)

\* lines 174-243 and 255-306: the two collectors differ in the rates call
CollectRates(self, env, rates_call) ==
    IF ~self.connected THEN Ret(self, "None", <<>>)
    ELSE LET chk == IF self.symbol_info = "None" THEN check_symbol(self, env)
                    ELSE Ret(self, "True", <<>>)
         IN  IF chk.raised THEN chk
             ELSE IF chk.result = "False" THEN Ret(chk.self, "None", chk.calls)
             ELSE IF env.rates = "none"
             THEN Ret(chk.self, "None", chk.calls \o <<rates_call, "last_error">>)
             ELSE Ret(chk.self, "df", chk.calls \o <<rates_call>>)

\* lines 174-243
collect_historical_data(self, env) == CollectRates(self, env, "copy_rates_range")

\* lines 255-306
collect_recent_data(self, env) == CollectRates(self, env, "copy_rates_from_pos")

\* lines 433-436 with the flag left as it was
shutdown_keeps_flag(self) ==
    IF self.connected THEN Ret(self, "None", <<"shutdown">>) ELSE Ret(self, "None", <<>>)

\* lines 433-436
shutdown(self) ==
    IF self.connected
    THEN Ret([self EXCEPT !.connected = FALSE], "None", <<"shutdown">>)
    ELSE Ret(self, "None", <<>>)

\* collect_all_timeframes.py lines 42-101: the try body, with what it
\* returns (an exception is caught at line 92 and gives None)
CollectBody(self, env) ==
    LET c == check_symbol(self, env) IN
    IF c.raised \/ c.result = "False" THEN Ret(c.self, "None", c.calls)
    ELSE LET h == collect_historical_data(c.self, env) IN
         IF h.raised \/ h.result = "None" THEN Ret(h.self, "None", c.calls \o h.calls)
         ELSE IF env.later_raises THEN Ret(h.self, "None", c.calls \o h.calls)
         ELSE Ret(h.self, "dict", c.calls \o h.calls)

\* collect_all_timeframes.py lines 42-101
collect_timeframe(env) ==
    LET i == initialize(FreshCollector, env) IN
    IF i.result = "False" THEN Ret(i.self, "None", i.calls)
    ELSE LET body == CollectBody(i.self, env)
             s == shutdown(body.self)
         IN  Ret(s.self, body.result, i.calls \o body.calls \o s.calls)

----------------------------------------------------------------------------
(* NewsAutoUpdater (src/news_auto_updater.py) and NewsCollector.fetch_news. *)
(* The clock counts minutes; a file is Absent or File(rows);                 *)
(* a row of news is [url, timestamp].                                       *)

MinutesPerDay == 1440
FirstLookback == 60
LookbackSlack == 5
Absent == [exists |-> FALSE, rows |-> <<>>]
File(rows) == [exists |-> TRUE, rows |-> rows]

\* strftime("%Y-%m-%d"): the day, the time of day dropped
FormatDate(t) == [day |-> t \div MinutesPerDay, minute |-> "none"]
\* a format that keeps the minute of the day, "%Y-%m-%dT%H:%M"
FormatMinute(t) == [day |-> t \div MinutesPerDay, minute |-> t % MinutesPerDay]

NoRequest == [sent |-> FALSE, from |-> FormatDate(0), to |-> FormatDate(0)]

\* news_collector.py lines 135-180: the request sent, if any, and the
\* articles returned ([] on a missing key, an API error or any exception)
fetch_news(from_date, to_date, env) ==
    IF env.api = "no_key" THEN [request |-> NoRequest, articles |-> <<>>]
    ELSE [ request |-> [sent |-> TRUE, from |-> FormatDate(from_date), to |-> FormatDate(to_date)],
           articles |-> IF env.api = "ok" THEN env.articles ELSE <<>> ]

\* news_auto_updater.py lines 71-95; process_articles gives one row per
\* article
fetch_recent_news(clock, minutes_back, env) ==
    LET to_date == clock
        from_date == to_date - minutes_back
        fetched == fetch_news(from_date, to_date, env)
    IN  [ request |-> fetched.request, from_date |-> from_date, to_date |-> to_date,
          df |-> fetched.articles ]

\* drop_duplicates(subset=["url"], keep="last")
DropDuplicatesLast(rows) ==
    SelectMask(rows, [ i \in 1..Len(rows) |->
                         \A j \in (i + 1)..Len(rows) : rows[j].url # rows[i].url ])

\* sort_values("timestamp", ascending=False): the default sort is not
\* stable, rows with equal timestamps may come in any order
SortedDescending(rows) ==
    { [ i \in 1..Len(rows) |-> rows[f[i]] ] :
        f \in { g \in [1..Len(rows) -> 1..Len(rows)] :
                   /\ \A i, j \in 1..Len(rows) : i # j => g[i] # g[j]
                   /\ \A i \in 1..(Len(rows) - 1) :
                         rows[g[i]].timestamp >= rows[g[i + 1]].timestamp } }

\* lines 108-132: the contents the master file can have after the call
MasterAfter(master, df) ==
    IF ~master.exists THEN { File(df) }
    ELSE { File(rows) : rows \in SortedDescending(DropDuplicatesLast(master.rows \o df)) }

\* lines 135-141
DailyAfter(daily, df) ==
    IF ~daily.exists THEN File(df) ELSE File(DropDuplicatesLast(daily.rows \o df))

\* lines 104-141: the files after the call, and whether it raised. A
\* failure at the master file leaves both files as they were, one at the
\* daily file comes after the master file was written.
save_news(master, daily, df, fails) ==
    IF df = <<>> THEN { [master |-> master, daily |-> daily, raised |-> FALSE] }
    ELSE IF fails = "master" THEN { [master |-> master, daily |-> daily, raised |-> TRUE] }
    ELSE { [ master |-> m,
             daily |-> IF fails = "daily" THEN daily ELSE DailyAfter(daily, df),
             raised |-> fails = "daily" ] : m \in MasterAfter(master, df) }

\* line 202, evaluated after the increment of line 199
LookbackMinutes(self) ==
    IF self.update_count = 1 THEN FirstLookback ELSE self.interval_minutes + LookbackSlack

\* lines 199-216, the body of the try: env.fails says which step, if any,
\* raises an Exception
UpdateBody(self, clock, master, daily, env) ==
    LET counted == [self EXCEPT !.update_count = @ + 1]
        minutes_back == LookbackMinutes(counted)
        f == fetch_recent_news(clock, minutes_back, env)
        base == [ self |-> counted, master |-> master, daily |-> daily,
                  request |-> f.request, minutes_back |-> minutes_back,
                  from_date |-> f.from_date, to_date |-> f.to_date,
                  batch |-> f.df, saved |-> FALSE, raised |-> FALSE ]
    IN  IF env.fails = "fetch" THEN { [base EXCEPT !.batch = <<>>, !.raised = TRUE] }
        ELSE IF f.df = <<>> THEN { base }
        ELSE { IF s.raised
               THEN [base EXCEPT !.master = s.master, !.daily = s.daily, !.raised = TRUE]
               ELSE [base EXCEPT !.master = s.master, !.daily = s.daily, !.saved = TRUE,
                                 !.self.total_articles = @ + Len(f.df),
                                 !.raised = (env.fails = "summary")] :
               s \in save_news(master, daily, f.df,
                               IF env.fails \in {"master", "daily"} THEN env.fails ELSE "none") }

\* lines 198-222 without the except clause
update_once_uncaught(self, clock, master, daily, env) ==
    UpdateBody(self, clock, master, daily, env)

\* lines 198-222: the except clause prints the error and returns
update_once(self, clock, master, daily, env) ==
    { [o EXCEPT !.raised = FALSE] : o \in UpdateBody(self, clock, master, daily, env) }

----------------------------------------------------------------------------
(* TimeFeatures.add_special_periods (src/src/features/time_features.py).   *)
(* A row is given by the calendar fields of its timestamp.                 *)

Flag(b) == IF b THEN 1 ELSE 0

\* lines 302-324
add_special_periods(row) ==
    [ hour |-> row.hour,
      day_of_week |-> row.day_of_week,
      day_of_month |-> row.day_of_month,
      is_first_hour_london |-> Flag(row.hour = 8),
      is_last_hour_ny |-> Flag(row.hour = 21),
      is_first_day_of_week |-> Flag(row.day_of_week = 0),
      is_last_day_of_week |-> Flag(row.day_of_week = 4),
      is_first_5_days |-> Flag(row.day_of_month <= 5),
      is_last_5_days |-> Flag(row.day_of_month >= row.days_in_month - 5),
      week_of_month |-> ((row.day_of_month - 1) \div 7) + 1 ]

----------------------------------------------------------------------------
(* State *)

NoNews == [loaded |-> FALSE, frame |-> NoColumns]

NoCall ==
    [ op |-> "none", timestamp |-> NaT, tz |-> Naive, window_hours |-> 0,
      df_price |-> EmptyFrame, df_news |-> NoColumns, windows |-> <<>> ]

NoSnapshot == [status |-> "none", value |-> EmptySnapshot]

NoCaller == [df_price |-> EmptyFrame, df_news |-> NoColumns]
NoEarlier == [call |-> NoCall, out |-> NoOut, snapshot |-> NoSnapshot]

\* NewsCollector.__init__ leaves sentiment_analyzer None: the FinBERT load
\* is switched off (line 77)
NoOperation ==
    [ op |-> "none", result |-> "None", calls |-> <<>>, raised |-> FALSE,
      before |-> FreshCollector, initialized |-> FALSE ]

\* MT5Collector.__init__, lines 67-68
MT5Idle ==
    /\ collector = FreshCollector
    /\ mt5_last = NoOperation
    /\ mt5 = [established |-> FALSE, ops |-> 0]

DefaultInterval == 10

NoFailure == [api |-> "ok", articles |-> <<>>, fails |-> "none", took |-> 0]

NoUpdate ==
    [ op |-> "none", pc |-> "ready", request |-> NoRequest, propagated |-> FALSE,
      batch |-> <<>>, saved |-> FALSE, saves |-> 0, env |-> NoFailure,
      before |-> [interval_minutes |-> DefaultInterval, update_count |-> 0,
                  total_articles |-> 0] ]

\* NewsAutoUpdater.__init__, lines 42-59, with no file written yet
UpdaterIdle ==
    /\ now = 0
    /\ updater = [interval_minutes |-> DefaultInterval, update_count |-> 0, total_articles |-> 0]
    /\ master_file = Absent
    /\ daily_file = Absent
    /\ upd_last = NoUpdate
    /\ lookbacks = <<>>

NoRow == [day_of_month |-> 1, days_in_month |-> 31, hour |-> 0, day_of_week |-> 0]
NoFlags == [computed |-> FALSE]

TimeIdle ==
    /\ tf_row = NoRow
    /\ tf_out = NoFlags

InitRest ==
    /\ sentiment_analyzer = None
    /\ analysed = <<>>
    /\ caller = NoCaller
    /\ earlier = NoEarlier
    /\ MT5Idle
    /\ UpdaterIdle
    /\ TimeIdle

\* the news-feature variables of a session that uses none of them
FeaturesIdle ==
    /\ news_file = [readable |-> FALSE, rows |-> <<>>, tz |-> Naive]
    /\ news_data = NoNews
    /\ call = NoCall
    /\ snapshot = NoSnapshot
    /\ out = NoOut
    /\ sentiment_analyzer = None
    /\ analysed = <<>>
    /\ caller = NoCaller
    /\ earlier = NoEarlier

\* the sequences without repetition over a set
DistinctSeqs(S) == { s \in SeqsUpTo(S, Cardinality(S)) : ~HasDuplicates(s) }

(* aggregate_sentiment alone: any news frame, one call *)

InitAgg ==
    /\ \E rows \in SeqsUpTo(Events, MaxNews), tz \in {Naive, "UTC"} :
          news_file = [readable |-> TRUE, rows |-> rows, tz |-> tz]
    /\ news_data = NoNews
    /\ call = NoCall
    /\ snapshot = NoSnapshot
    /\ out = NoOut
    /\ InitRest

\* one call aggregate_sentiment(df_news, timestamp, window_hours) on the
\* frame load_news gives for the file
AggregateSentiment ==
    /\ call.op = "none"
    /\ \E t \in { Ts(v) : v \in TimeChoices } \cup {NaT}, tz \in TzChoices, w \in WindowChoices :
        LET df_news == LoadNewsResult(news_file) IN
        /\ call' = [NoCall EXCEPT !.op = "aggregate_sentiment", !.timestamp = t,
                                  !.tz = tz, !.window_hours = w]
        /\ snapshot' = [status |-> "returned", value |-> aggregate_sentiment(df_news, t, tz, w)]
        /\ UNCHANGED <<mt5_vars, upd_vars, tf_vars, news_file, news_data, out, sentiment_analyzer, analysed, caller, earlier>>

NextAgg == AggregateSentiment

SpecAgg == InitAgg /\ [][NextAgg]_vars

(* aggregate_sentiment at two evaluation points one window apart: t, then *)
(* t + window_hours                                                        *)

\* the second call aggregate_sentiment(df_news, timestamp + window, window)
AggregateAdjacent ==
    /\ call.op = "aggregate_sentiment"
    /\ earlier.call.op = "none"
    /\ call.timestamp.kind = "ts"
    /\ LET df_news == LoadNewsResult(news_file)
           t == Ts(call.timestamp.v + call.window_hours)
       IN  /\ earlier' = [call |-> call, out |-> out, snapshot |-> snapshot]
           /\ call' = [call EXCEPT !.timestamp = t]
           /\ snapshot' = [ status |-> "returned",
                            value |-> aggregate_sentiment(df_news, t, call.tz, call.window_hours) ]
    /\ UNCHANGED <<mt5_vars, upd_vars, tf_vars, news_file, news_data, out, sentiment_analyzer, analysed, caller>>

NextAdj == AggregateSentiment \/ AggregateAdjacent

\* the rows of a frame in every other order
Reordered(rows) ==
    { [ i \in 1..Len(rows) |-> rows[f[i]] ] :
        f \in { g \in [1..Len(rows) -> 1..Len(rows)] :
                   \A i, j \in 1..Len(rows) : i # j => g[i] # g[j] } } \ {rows}

(* the same query a second time, on the same events in another order *)

AggregateReordered ==
    /\ call.op = "aggregate_sentiment"
    /\ earlier.call.op = "none"
    /\ \E rows \in Reordered(news_file.rows) :
        LET df_news == NewsFrame(rows, news_file.tz) IN
        /\ earlier' = [call |-> [call EXCEPT !.df_news = LoadNewsResult(news_file)],
                       out |-> out, snapshot |-> snapshot]
        /\ call' = [call EXCEPT !.df_news = df_news]
        /\ snapshot' = [ status |-> "returned",
                         value |-> aggregate_sentiment(df_news, call.timestamp, call.tz,
                                                       call.window_hours) ]
    /\ UNCHANGED <<mt5_vars, upd_vars, tf_vars, news_file, news_data, out, sentiment_analyzer, analysed, caller>>

NextPerm == AggregateSentiment \/ AggregateReordered

SpecPerm == InitAgg /\ [][NextPerm]_vars

SpecAdj == InitAgg /\ [][NextAdj]_vars

(* The frame operations: a news file, a price frame, a list of windows *)

FrameEvent1 == [timestamp |-> Ts(12), polarity |-> 5, sentiment |-> "positive"]
FrameEvent2 == [timestamp |-> Ts(13), polarity |-> -5, sentiment |-> "negative"]
FrameNewsRows == { <<>>, <<FrameEvent1>>, <<FrameEvent1, FrameEvent2>> }
FrameWindowChoices == {1, 24}
FrameCells == {Ts(12), Ts(13), NaT, BadTs}
IndexLabels == {0, 1, 2}
PriceKinds == {"timestamp", "time", "both", "none"}

PriceFrames ==
    { PriceFrame(kind, [ i \in 1..Len(rows) |-> rows[i][1] ], [ i \in 1..Len(rows) |-> rows[i][2] ]) :
        kind \in PriceKinds, rows \in SeqsUpTo(IndexLabels \X FrameCells, MaxRows) }

Init ==
    /\ news_file \in
          { [readable |-> FALSE, rows |-> <<>>, tz |-> Naive] }
          \cup { [readable |-> TRUE, rows |-> r, tz |-> tz] : r \in FrameNewsRows, tz \in {Naive, "UTC"} }
    /\ news_data = NoNews
    /\ call = NoCall
    /\ snapshot = NoSnapshot
    /\ out = NoOut
    /\ InitRest

\* load_news(news_path), lines 39-51
LoadNews ==
    /\ call.op = "none"
    /\ call' = [NoCall EXCEPT !.op = "load_news"]
    /\ news_data' = IF news_file.readable
                    THEN [loaded |-> TRUE, frame |-> LoadNewsResult(news_file)]
                    ELSE news_data
    /\ UNCHANGED <<mt5_vars, upd_vars, tf_vars, news_file, snapshot, out, sentiment_analyzer, analysed, caller, earlier>>

\* add_sentiment_features(df_price, df_news, windows) on the frame load_news
\* gives for the file
AddSentimentFeatures ==
    /\ call.op = "none"
    /\ \E df_price \in PriceFrames, windows \in DistinctSeqs(FrameWindowChoices) :
        /\ call' = [NoCall EXCEPT !.op = "add_sentiment_features",
                                  !.df_price = df_price, !.windows = windows,
                                  !.df_news = LoadNewsResult(news_file)]
        /\ out' = add_sentiment_features(df_price, Naive, LoadNewsResult(news_file), windows)
        /\ caller' = [ df_price |-> PriceAfterCall(df_price),
                       df_news |-> NewsAfterCall(LoadNewsResult(news_file)) ]
        /\ UNCHANGED <<mt5_vars, upd_vars, tf_vars, news_file, news_data, snapshot, sentiment_analyzer, analysed, earlier>>

\* merge_price_and_news(df_price, news_path, windows)
MergePriceAndNews ==
    /\ call.op = "none"
    /\ \E df_price \in PriceFrames, windows \in DistinctSeqs(FrameWindowChoices) :
        /\ call' = [NoCall EXCEPT !.op = "merge_price_and_news",
                                  !.df_price = df_price, !.windows = windows]
        /\ out' = merge_price_and_news(df_price, Naive, news_file, windows)
        /\ news_data' = IF news_file.readable
                        THEN [loaded |-> TRUE, frame |-> LoadNewsResult(news_file)]
                        ELSE news_data
        /\ UNCHANGED <<mt5_vars, upd_vars, tf_vars, news_file, snapshot, sentiment_analyzer, analysed, caller, earlier>>

Next == LoadNews \/ AddSentimentFeatures \/ MergePriceAndNews

Spec == Init /\ [][Next]_vars

(* add_sentiment_momentum: called on a frame that carries a sentiment_avg *)
(* column for one window or for none, or reached through                   *)
(* merge_price_and_news                                                    *)

MaxSeries == 4
AvgChoices == {Float(1), Float(3), Float(-2)}
LongAvgChoices == {Float(0), Float(1)}
AvgSeries ==
    SeqsUpTo(AvgChoices, MaxSeries)
    \cup UNION { [1..k -> LongAvgChoices] : k \in RollingWindow..(RollingWindow + 1) }
NoWindow == 0

\* a frame with a "close" column and, for carried # NoWindow, the
\* sentiment_avg column of that window
MomentumFrame(series, carried) ==
    [ index |-> RangeIndex(Len(series)),
      names |-> <<Col("close")>>
                \o (IF carried = NoWindow THEN <<>> ELSE <<FeatCol(carried, "sentiment_avg")>>),
      data |-> << [ i \in 1..Len(series) |-> Float(100 + i) ] >>
               \o (IF carried = NoWindow THEN <<>> ELSE <<series>>) ]

InitMom ==
    /\ news_file = [readable |-> TRUE, rows |-> <<FrameEvent1, FrameEvent2>>, tz |-> Naive]
    /\ news_data = NoNews
    /\ call = NoCall
    /\ snapshot = NoSnapshot
    /\ out = NoOut
    /\ InitRest

\* add_sentiment_momentum(df, window)
AddSentimentMomentum ==
    /\ call.op = "none"
    /\ \E series \in AvgSeries, carried \in FrameWindowChoices \cup {NoWindow},
          window \in FrameWindowChoices :
        LET df == MomentumFrame(series, carried) IN
        /\ call' = [NoCall EXCEPT !.op = "add_sentiment_momentum",
                                  !.df_price = df, !.window_hours = window]
        /\ out' = Returned(add_sentiment_momentum(df, window))
        /\ UNCHANGED <<mt5_vars, upd_vars, tf_vars, news_file, news_data, snapshot, sentiment_analyzer, analysed,
                       caller, earlier>>

NextMom == AddSentimentMomentum \/ MergePriceAndNews

SpecMom == InitMom /\ [][NextMom]_vars

(* add_sentiment_features called twice with the same arguments, with or   *)
(* without a load_news in between; the event frame is the caller's own,    *)
(* not the one load_news reads                                             *)

GivenNewsFrames == { NewsFrame(<<>>, Naive), NewsFrame(<<FrameEvent1, FrameEvent2>>, Naive) }

InitTwice ==
    /\ news_file = [readable |-> TRUE, rows |-> <<FrameEvent1>>, tz |-> Naive]
    /\ news_data = NoNews
    /\ call = NoCall
    /\ snapshot = NoSnapshot
    /\ out = NoOut
    /\ InitRest

\* add_sentiment_features(df_price, df_news, windows), the first call
AddSentimentFeaturesGiven ==
    /\ call.op = "none"
    /\ \E df_price \in PriceFrames, df_news \in GivenNewsFrames,
          windows \in DistinctSeqs(FrameWindowChoices) :
        /\ call' = [NoCall EXCEPT !.op = "add_sentiment_features", !.df_price = df_price,
                                  !.windows = windows, !.df_news = df_news]
        /\ out' = add_sentiment_features(df_price, Naive, df_news, windows)
        /\ caller' = [df_price |-> PriceAfterCall(df_price), df_news |-> NewsAfterCall(df_news)]
        /\ UNCHANGED <<mt5_vars, upd_vars, tf_vars, news_file, news_data, snapshot, sentiment_analyzer, analysed, earlier>>

\* load_news(news_path) after the first call
LoadNewsBetween ==
    /\ call.op = "add_sentiment_features"
    /\ earlier.call.op = "none"
    /\ earlier' = [call |-> call, out |-> out, snapshot |-> snapshot]
    /\ call' = [NoCall EXCEPT !.op = "load_news"]
    /\ news_data' = IF news_file.readable
                    THEN [loaded |-> TRUE, frame |-> LoadNewsResult(news_file)]
                    ELSE news_data
    /\ UNCHANGED <<mt5_vars, upd_vars, tf_vars, news_file, snapshot, out, sentiment_analyzer, analysed, caller>>

\* add_sentiment_features again, with the arguments of the first call
RepeatSentimentFeatures ==
    /\ \/ /\ call.op = "add_sentiment_features" /\ earlier.call.op = "none"
          /\ earlier' = [call |-> call, out |-> out, snapshot |-> snapshot]
       \/ /\ call.op = "load_news" /\ earlier.call.op = "add_sentiment_features"
          /\ earlier' = earlier
    /\ call' = earlier'.call
    /\ out' = add_sentiment_features(call'.df_price, Naive, call'.df_news, call'.windows)
    /\ caller' = [ df_price |-> PriceAfterCall(call'.df_price),
                   df_news |-> NewsAfterCall(call'.df_news) ]
    /\ UNCHANGED <<mt5_vars, upd_vars, tf_vars, news_file, news_data, snapshot, sentiment_analyzer, analysed>>

NextTwice == AddSentimentFeaturesGiven \/ LoadNewsBetween \/ RepeatSentimentFeatures

SpecTwice == InitTwice /\ [][NextTwice]_vars

(* analyze_sentiment on a few texts, one call after another *)

MaxTexts == 2
MethodChoices == {"auto", "finbert", "textblob"}
PolarityChoices ==
    { -PolarityScale, -(Threshold + 1), -Threshold, 0, Threshold, Threshold + 1, PolarityScale }
TextBlobOutcomes == { TextBlobPolarity(p) : p \in PolarityChoices } \cup {TextBlobError}
FinbertOutcomes ==
    { FinbertLabel(l, sc) : l \in {"positive", "negative", "neutral"},
                            sc \in {4 * Threshold, 9 * Threshold} }
    \cup {FinbertError}

InitSent ==
    /\ news_file = [readable |-> FALSE, rows |-> <<>>, tz |-> Naive]
    /\ news_data = NoNews
    /\ call = NoCall
    /\ snapshot = NoSnapshot
    /\ out = NoOut
    /\ InitRest

\* analyze_sentiment(text, method)
AnalyzeSentiment ==
    /\ Len(analysed) < MaxTexts
    /\ \E tb \in TextBlobOutcomes, fb \in FinbertOutcomes, method \in MethodChoices :
          analysed' = Append(analysed,
                               [ method |-> method,
                                 result |-> analyze_sentiment(sentiment_analyzer, tb, fb, method) ])
    /\ UNCHANGED <<mt5_vars, upd_vars, tf_vars, news_file, news_data, call, snapshot, out, sentiment_analyzer, caller, earlier>>

NextSent == AnalyzeSentiment

SpecSent == InitSent /\ [][NextSent]_vars

(* an MT5Collector session: the operations of the collector in any order, *)
(* against a terminal that answers each call in any of the ways           *)
(* MetaTrader5 can; collect_timeframe works on a collector of its own     *)

MaxOps == 3

CredentialChoices == {"ok", "missing"}
InfoChoices == {"None", "hidden", "visible"}
RatesChoices == {"bars", "none"}

InitMT5 ==
    /\ FeaturesIdle
    /\ MT5Idle
    /\ UpdaterIdle
    /\ TimeIdle

MT5Return(op, r, initialized, established) ==
    /\ collector' = r.self
    /\ mt5_last' = [ op |-> op, result |-> r.result, calls |-> r.calls, raised |-> r.raised,
                     before |-> collector, initialized |-> initialized ]
    /\ mt5' = [established |-> established, ops |-> mt5.ops + 1]
    /\ UNCHANGED <<feat_vars, upd_vars, tf_vars>>

Initialize ==
    /\ mt5.ops < MaxOps
    /\ \E cred \in CredentialChoices, init_ok \in BOOLEAN, account_ok \in BOOLEAN :
        LET env == [DefaultEnv EXCEPT !.credentials = cred, !.init_ok = init_ok,
                                      !.account_ok = account_ok]
            ok == cred = "ok" /\ init_ok /\ account_ok
        IN  MT5Return("initialize", initialize(collector, env), ok, mt5.established \/ ok)

CheckSymbol ==
    /\ mt5.ops < MaxOps
    /\ \E info \in InfoChoices, select_ok \in BOOLEAN, again \in {"None", "visible"} :
        LET env == [DefaultEnv EXCEPT !.info = info, !.select_ok = select_ok,
                                      !.info_again = again]
        IN  MT5Return("check_symbol", check_symbol(collector, env), FALSE, mt5.established)

CollectHistoricalData ==
    /\ mt5.ops < MaxOps
    /\ \E info \in InfoChoices, rates \in RatesChoices :
        LET env == [DefaultEnv EXCEPT !.info = info, !.rates = rates]
        IN  MT5Return("collect_historical_data", collect_historical_data(collector, env),
                      FALSE, mt5.established)

CollectRecentData ==
    /\ mt5.ops < MaxOps
    /\ \E info \in InfoChoices, rates \in RatesChoices :
        LET env == [DefaultEnv EXCEPT !.info = info, !.rates = rates]
        IN  MT5Return("collect_recent_data", collect_recent_data(collector, env),
                      FALSE, mt5.established)

Shutdown ==
    /\ mt5.ops < MaxOps
    /\ MT5Return("shutdown", shutdown(collector), FALSE, FALSE)

CollectTimeframe ==
    /\ mt5.ops < MaxOps
    /\ \E cred \in CredentialChoices, init_ok \in BOOLEAN, account_ok \in BOOLEAN,
          info \in InfoChoices, select_ok \in BOOLEAN, again \in {"None", "visible"},
          rates \in RatesChoices, later_raises \in BOOLEAN :
        LET env == [ credentials |-> cred, init_ok |-> init_ok, account_ok |-> account_ok,
                     info |-> info, select_ok |-> select_ok, info_again |-> again,
                     rates |-> rates, later_raises |-> later_raises ]
            ok == cred = "ok" /\ init_ok /\ account_ok
        IN  /\ collector' = collect_timeframe(env).self
            /\ mt5_last' = [ op |-> "collect_timeframe", result |-> collect_timeframe(env).result,
                             calls |-> collect_timeframe(env).calls, raised |-> FALSE,
                             before |-> FreshCollector, initialized |-> ok ]
            /\ mt5' = [established |-> FALSE, ops |-> mt5.ops + 1]
            /\ UNCHANGED <<feat_vars, upd_vars, tf_vars>>

NextMT5 ==
    \/ Initialize
    \/ CheckSymbol
    \/ CollectHistoricalData
    \/ CollectRecentData
    \/ Shutdown
    \/ CollectTimeframe

SpecMT5 == InitMT5 /\ [][NextMT5]_vars

(* save_news alone: a sequence of calls with non-empty batches, starting *)
(* with no file                                                          *)

MaxBatch == 2
MaxSaves == 3

UrlChoices == {"u1", "u2"}
StampChoices == {1, 2}
ArticleRows == [url : UrlChoices, timestamp : StampChoices]

InitSave ==
    /\ FeaturesIdle
    /\ MT5Idle
    /\ UpdaterIdle
    /\ TimeIdle

SaveNews ==
    /\ upd_last.saves < MaxSaves
    /\ \E df \in SeqsUpTo(ArticleRows, MaxBatch) \ {<<>>} :
       \E o \in save_news(master_file, daily_file, df, "none") :
        /\ master_file' = o.master
        /\ daily_file' = o.daily
        /\ upd_last' = [upd_last EXCEPT !.op = "save_news", !.batch = df, !.saved = TRUE,
                                        !.saves = @ + 1]
        /\ UNCHANGED <<feat_vars, mt5_vars, tf_vars, now, updater, lookbacks>>

NextSave == SaveNews

SpecSave == InitSave /\ [][NextSave]_vars

(* a NewsAutoUpdater session: run() alternates update_once and the sleep *)
(* of interval_minutes; the API answers and a step of the update fails   *)
(* in any of the ways below, and an update takes no time or six minutes  *)

MaxUpdates == 2

StartChoices == {870, 1500}
IntervalChoices == {10, 30}
DurationChoices == {0, 6}
ApiChoices == {"ok", "error", "no_key"}
FailureChoices == {"none", "fetch", "master", "daily", "summary"}
UpdateBatches ==
    { <<>>,
      <<[url |-> "u1", timestamp |-> 1]>>,
      <<[url |-> "u1", timestamp |-> 2], [url |-> "u2", timestamp |-> 2]>> }

InitUpd ==
    /\ FeaturesIdle
    /\ MT5Idle
    /\ TimeIdle
    /\ now \in StartChoices
    /\ \E m \in IntervalChoices :
          updater = [interval_minutes |-> m, update_count |-> 0, total_articles |-> 0]
    /\ master_file = Absent
    /\ daily_file = Absent
    /\ upd_last = NoUpdate
    /\ lookbacks = <<>>

UpdateOnce ==
    /\ upd_last.pc = "ready"
    /\ updater.update_count < MaxUpdates
    /\ \E api \in ApiChoices, articles \in UpdateBatches, fails \in FailureChoices,
          took \in DurationChoices :
        LET env == [api |-> api, articles |-> articles, fails |-> fails, took |-> took] IN
        \E o \in update_once(updater, now, master_file, daily_file, env) :
            /\ updater' = o.self
            /\ master_file' = o.master
            /\ daily_file' = o.daily
            /\ now' = now + took
            /\ upd_last' = [ op |-> "update_once",
                             pc |-> IF o.raised THEN "stopped" ELSE "sleep",
                             request |-> o.request, propagated |-> o.raised,
                             batch |-> o.batch, saved |-> o.saved, saves |-> upd_last.saves,
                             env |-> env, before |-> updater ]
            /\ lookbacks' = Append(lookbacks, [ minutes_back |-> o.minutes_back,
                                                from_date |-> o.from_date,
                                                to_date |-> o.to_date ])
            /\ UNCHANGED <<feat_vars, mt5_vars, tf_vars>>

\* time.sleep(self.interval_seconds), line 245
Sleep ==
    /\ upd_last.pc = "sleep"
    /\ now' = now + updater.interval_minutes
    /\ upd_last' = [upd_last EXCEPT !.pc = "ready"]
    /\ UNCHANGED <<feat_vars, mt5_vars, tf_vars, updater, master_file, daily_file, lookbacks>>

NextUpd == UpdateOnce \/ Sleep

SpecUpd == InitUpd /\ [][NextUpd]_vars

(* add_special_periods on one row: any day of a month of 28 to 31 days *)

HourChoices == {8, 12, 21}
WeekdayChoices == {0, 2, 4}

TimeRows ==
    { r \in [ day_of_month : 1..31, days_in_month : 28..31, hour : HourChoices,
              day_of_week : WeekdayChoices ] : r.day_of_month <= r.days_in_month }

InitTime ==
    /\ FeaturesIdle
    /\ MT5Idle
    /\ UpdaterIdle
    /\ tf_row \in TimeRows
    /\ tf_out = NoFlags

AddSpecialPeriods ==
    /\ ~tf_out.computed
    /\ tf_out' = [computed |-> TRUE, columns |-> add_special_periods(tf_row)]
    /\ UNCHANGED <<feat_vars, mt5_vars, upd_vars, tf_row>>

NextTime == AddSpecialPeriods

SpecTime == InitTime /\ [][NextTime]_vars

----------------------------------------------------------------------------
(* Properties of aggregate_sentiment (under SpecAgg) *)

AggCalled == call.op = "aggregate_sentiment" /\ snapshot.status = "returned"
Snap == snapshot.value
NewsRows == news_file.rows

\* the query timestamp as compared with the events
QueryT == NormalizeTimestamp(LoadNewsResult(news_file), call.timestamp, call.tz).t

EventsAt(v) == { i \in 1..Len(NewsRows) : NewsRows[i].timestamp.v = v }
EventsBetween(lo, hi) ==
    { i \in 1..Len(NewsRows) : lo <= NewsRows[i].timestamp.v /\ NewsRows[i].timestamp.v <= hi }
EventsAfterUpTo(lo, hi) ==
    { i \in 1..Len(NewsRows) : lo < NewsRows[i].timestamp.v /\ NewsRows[i].timestamp.v <= hi }

\* C1 as claimed: the events counted are those of the half-open interval
\* (t - L, t]: an event at t is counted, an event at exactly t - L is not.
C1_HalfOpenWindow ==
    (AggCalled /\ QueryT.kind = "ts") =>
        Snap.news_count = Cardinality(EventsAfterUpTo(QueryT.v - call.window_hours, QueryT.v))

\* C1 amended: the events counted are those of the closed interval
\* [t - L, t]: an event at t is counted, and so is an event at exactly t - L.
C1_ClosedWindow ==
    (AggCalled /\ QueryT.kind = "ts") =>
        /\ Snap.news_count = Cardinality(EventsBetween(QueryT.v - call.window_hours, QueryT.v))
        /\ Snap.news_count >= Cardinality(EventsAt(QueryT.v))
                              + Cardinality(EventsAt(QueryT.v - call.window_hours))

C1_Witness ==
    /\ AggCalled /\ QueryT.kind = "ts"
    /\ EventsAt(QueryT.v) # {}
    /\ EventsAt(QueryT.v - call.window_hours) # {}
    /\ Snap.news_count = 2

\* C7: in every snapshot aggregate_sentiment returns, positive_count +
\* negative_count + neutral_count = news_count.
C7_TallyInvariant ==
    AggCalled => Snap.positive_count + Snap.negative_count + Snap.neutral_count = Snap.news_count

C7_Witness ==
    /\ AggCalled
    /\ Snap.news_count = 2
    /\ Snap.neutral_count = 1
    /\ Snap.negative_count = 1
    /\ Len(NewsRows) = 2

AllZero(snap) ==
    /\ \A f \in CountFields : snap[f] = 0
    /\ \A f \in Range(SnapshotFields) \ CountFields : snap[f] = Float(0)
    /\ DOMAIN snap = Range(SnapshotFields)

NoEventInWindow ==
    \/ QueryT.kind # "ts"
    \/ EventsBetween(QueryT.v - call.window_hours, QueryT.v) = {}

\* C8: when no event falls in the window of the query timestamp, the
\* snapshot's 11 fields are all zero, none of them a missing value.
C8_EmptyWindowAllZero ==
    (AggCalled /\ NoEventInWindow) =>
        /\ AllZero(Snap)
        /\ Cardinality(DOMAIN Snap) = 11

C8_Witness ==
    /\ AggCalled
    /\ QueryT.kind = "ts"
    /\ Len(NewsRows) = 2
    /\ NoEventInWindow
    /\ AllZero(Snap)

\* C10: with timezone-aware events and a naive query timestamp, the query is
\* taken as UTC: the events counted are those whose instant lies within the
\* window ending at the query's wall-clock value read as UTC; UTC events at
\* 00:00 (0.5, positive) and 12:00 (-0.5, negative) with the naive query
\* 13:00 and 24 hours give news_count 2, sentiment_avg 0, one positive and
\* one negative.
C10_NaiveQueryTakenAsUTC ==
    (AggCalled /\ news_file.tz = "UTC" /\ call.tz = Naive /\ call.timestamp.kind = "ts") =>
        /\ Snap.news_count =
              Cardinality(EventsBetween(call.timestamp.v - call.window_hours, call.timestamp.v))
        /\ ( /\ NewsRows = << [timestamp |-> Ts(0), polarity |-> 5, sentiment |-> "positive"],
                              [timestamp |-> Ts(12), polarity |-> -5, sentiment |-> "negative"] >>
             /\ call.timestamp = Ts(13)
             /\ call.window_hours = 24 )
           => ( /\ Snap.news_count = 2
                /\ Snap.sentiment_avg = Float(0)
                /\ Snap.positive_count = 1
                /\ Snap.negative_count = 1 )

C10_Witness ==
    /\ AggCalled /\ news_file.tz = "UTC" /\ call.tz = Naive
    /\ NewsRows = << [timestamp |-> Ts(0), polarity |-> 5, sentiment |-> "positive"],
                     [timestamp |-> Ts(12), polarity |-> -5, sentiment |-> "negative"] >>
    /\ call.timestamp = Ts(13)
    /\ call.window_hours = 24
    /\ Snap.news_count = 2

\* the wall-clock hour the query timestamp shows in its own zone
QueryWallClock == call.timestamp.v + TzOffset(call.tz)

\* C11: with naive events and a timezone-aware query timestamp, the query's
\* zone is dropped and its wall-clock value kept (no shift to another zone):
\* the events counted are those within the window ending at that wall-clock
\* value.  When events and query agree on awareness the query is used
\* unchanged: the window ends at the query's own value.
C11_AwareQueryStripped ==
    (AggCalled /\ call.timestamp.kind = "ts") =>
        /\ (news_file.tz = Naive /\ call.tz # Naive) =>
              Snap.news_count =
                 Cardinality(EventsBetween(QueryWallClock - call.window_hours, QueryWallClock))
        /\ ((news_file.tz = Naive) <=> (call.tz = Naive)) =>
              Snap.news_count =
                 Cardinality(EventsBetween(call.timestamp.v - call.window_hours, call.timestamp.v))

\* naive events, a +01:00 query whose wall clock reads 13:00 (12:00 UTC): the
\* event at 13:00 is counted
C11_Witness ==
    /\ AggCalled
    /\ news_file.tz = Naive /\ call.tz = "+01:00"
    /\ call.timestamp = Ts(12) /\ call.window_hours = 1
    /\ EventsAt(13) # {}
    /\ Snap.news_count = Cardinality(EventsBetween(12, 13))
    /\ Snap.news_count > Cardinality(EventsBetween(11, 12))

\* the events of the window of the last call
InWindow ==
    IF QueryT.kind = "ts" THEN EventsBetween(QueryT.v - call.window_hours, QueryT.v) ELSE {}

RECURSIVE PolaritySum(_)
PolaritySum(S) ==
    IF S = {} THEN 0
    ELSE LET i == CHOOSE x \in S : TRUE IN NewsRows[i].polarity + PolaritySum(S \ {i})

LabelledIn(S, label) == { i \in S : NewsRows[i].sentiment = label }

C14_Ratios ==
    AggCalled =>
        /\ FLeq(Float(0), Snap.positive_ratio) /\ FLeq(Snap.positive_ratio, Float(1))
        /\ FLeq(Float(0), Snap.negative_ratio) /\ FLeq(Snap.negative_ratio, Float(1))
        /\ Snap.news_count > 0 =>
              /\ Snap.positive_ratio.n * Snap.news_count = Snap.positive_count * Snap.positive_ratio.d
              /\ Snap.negative_ratio.n * Snap.news_count = Snap.negative_count * Snap.negative_ratio.d
              /\ Snap.positive_count = Cardinality(LabelledIn(InWindow, "positive"))
              /\ Snap.negative_count = Cardinality(LabelledIn(InWindow, "negative"))
              /\ Snap.news_count = Cardinality(InWindow)
        /\ Snap.news_count = 0 =>
              /\ Snap.positive_ratio = Float(0)
              /\ Snap.negative_ratio = Float(0)

\* one positive and one neutral event in the window: positive_ratio 1/2,
\* negative_ratio 0
C14_Witness ==
    /\ AggCalled
    /\ Snap.news_count = 2
    /\ Snap.positive_count = 1
    /\ Snap.negative_count = 0
    /\ Snap.positive_ratio = Frac(1, 2)
    /\ Snap.negative_ratio = Float(0)

----------------------------------------------------------------------------
(* Properties of adjacent windows (under SpecAdj) *)

AdjacentCalled ==
    /\ call.op = "aggregate_sentiment" /\ earlier.call.op = "aggregate_sentiment"
    /\ snapshot.status = "returned" /\ earlier.snapshot.status = "returned"
\* the first evaluation point, as compared with the events
FirstT == NormalizeTimestamp(LoadNewsResult(news_file), earlier.call.timestamp, earlier.call.tz).t.v
CountedTwice == earlier.snapshot.value.news_count + Snap.news_count

\* C21 as claimed: for the evaluation points t and t + L with window L no
\* event is counted in both snapshots: the two news_count values add up to
\* the number of events in (t - L, t + L].
C21_NoDoubleCount ==
    AdjacentCalled =>
        CountedTwice = Cardinality(EventsAfterUpTo(FirstT - call.window_hours,
                                                   FirstT + call.window_hours))

\* C21 amended: both windows are closed, [t - L, t] and [t, t + L]: the two
\* news_count values add up to the number of events in [t - L, t + L] plus
\* the number of events at exactly t, each of which is counted in both
\* snapshots.
C21_BoundaryCountedTwice ==
    AdjacentCalled =>
        CountedTwice = Cardinality(EventsBetween(FirstT - call.window_hours,
                                                 FirstT + call.window_hours))
                       + Cardinality(EventsAt(FirstT))

\* one event at exactly t and one at t + L: the counts are 1 and 2
C21_Witness ==
    /\ AdjacentCalled
    /\ Len(NewsRows) = 2
    /\ Cardinality(EventsAt(FirstT)) = 1
    /\ Cardinality(EventsAt(FirstT + call.window_hours)) = 1
    /\ earlier.snapshot.value.news_count = 1
    /\ Snap.news_count = 2

----------------------------------------------------------------------------
(* Properties of add_sentiment_features and merge_price_and_news (under Spec) *)

AddCalled == call.op = "add_sentiment_features"
MergeCalled == call.op = "merge_price_and_news"
PriceIn == call.df_price
Windows == call.windows
DfNews == LoadNewsResult(news_file)
Usable == HasCol(PriceIn, Col("timestamp")) \/ HasCol(PriceIn, Col("time"))
TimeOnly == ~HasCol(PriceIn, Col("timestamp")) /\ HasCol(PriceIn, Col("time"))
\* the raw timestamps the call reads
StampsIn == IF TimeOnly THEN Column(PriceIn, Col("time")) ELSE Column(PriceIn, Col("timestamp"))
WindowSet == Range(Windows)
FieldSet == Range(SnapshotFields)

\* C2 as claimed: without a 'timestamp' or 'time' column the call fails with
\* an InputSchemaError and returns no frame.
C2_MissingColumnRaises ==
    (AddCalled /\ ~Usable) => (out.status = "raised" /\ out.error = "InputSchemaError")

\* C2 amended: without a 'timestamp' or 'time' column the call raises
\* nothing; it reports the error on the console and returns a copy of the
\* input frame, no column added.
C2_MissingColumnReturnsInput ==
    (AddCalled /\ ~Usable) => (out.status = "returned" /\ out.frame = PriceIn)

C2_Witness ==
    /\ AddCalled /\ ~Usable
    /\ NRows(PriceIn) = 2 /\ Len(Windows) = 2
    /\ out = Returned(PriceIn)

\* C3 as claimed: a price row whose timestamp cannot be parsed gets the
\* all-zero snapshot and the other rows are processed: the call does not
\* raise.
C3_BadTimestampAbsorbed ==
    (AddCalled /\ Usable /\ DfNews.has_columns /\ ~HasDuplicates(PriceIn.index)) =>
        /\ out.status = "returned"
        /\ \A i \in 1..NRows(PriceIn) : \A w \in WindowSet : \A f \in FieldSet :
              StampsIn[i].kind = "bad" =>
                 /\ HasCol(out.frame, FeatCol(w, f))
                 /\ Column(out.frame, FeatCol(w, f))[i] = Float(0)

\* C4 as claimed: with a non-empty window list the returned frame has as
\* many rows as the price frame, whatever its index labels.
C4_RowCountPreserved ==
    (AddCalled /\ Windows # <<>> /\ out.status = "returned") =>
        NRows(out.frame) = NRows(PriceIn)

\* C5 as claimed: the i-th output row keeps the i-th input row's price
\* columns and carries, for every window, the snapshot of the i-th input
\* row's timestamp, whatever the index labels.
C5_PositionalCorrespondence ==
    (AddCalled /\ Usable /\ out.status = "returned") =>
        \A i \in 1..NRows(PriceIn) :
            /\ i <= NRows(out.frame)
            /\ Column(out.frame, Col("close"))[i] = Column(PriceIn, Col("close"))[i]
            /\ \A w \in WindowSet : \A f \in FieldSet :
                  /\ HasCol(out.frame, FeatCol(w, f))
                  /\ Column(out.frame, FeatCol(w, f))[i] =
                        SnapshotCell(aggregate_sentiment(DfNews, StampsIn[i], Naive, w), f)

NoEvents == Len(DfNews.rows) = 0

\* C9 as claimed: given zero events (a readable news file without rows),
\* merge_price_and_news and add_sentiment_features return, for every price
\* row and every window, the 11 snapshot columns, all zero (stated here for
\* price frames whose timestamps parse and whose index is 0..N-1).
C9_EmptySourceAllZero ==
    ((AddCalled \/ MergeCalled) /\ NoEvents /\ news_file.readable /\ Usable
        /\ ~ToDatetimeRaises(StampsIn) /\ PriceIn.index = RangeIndex(NRows(PriceIn))) =>
        /\ out.status = "returned"
        /\ \A i \in 1..NRows(PriceIn) : \A w \in WindowSet : \A f \in FieldSet :
              /\ HasCol(out.frame, FeatCol(w, f))
              /\ i <= NRows(out.frame)
              /\ Column(out.frame, FeatCol(w, f))[i] = Float(0)

\* C9 amended: given zero events, merge_price_and_news skips the sentiment
\* features and returns the price frame as it is, no snapshot column added;
\* add_sentiment_features called with an event frame that has its columns
\* and no rows adds, whenever it returns a frame for a price frame with
\* rows, the 11 snapshot columns of every window, and every value in them
\* is zero or missing (all zero when the price frame's index is 0..N-1).
C9_EmptySourceAmended ==
    /\ (MergeCalled /\ NoEvents) => out = Returned(PriceIn)
    /\ (AddCalled /\ NoEvents /\ DfNews.has_columns /\ Usable
          /\ NRows(PriceIn) > 0 /\ out.status = "returned") =>
          \A w \in WindowSet : \A f \in FieldSet :
              /\ HasCol(out.frame, FeatCol(w, f))
              /\ \A p \in 1..NRows(out.frame) :
                    /\ Column(out.frame, FeatCol(w, f))[p] \in {Float(0), NaN}
                    /\ PriceIn.index = RangeIndex(NRows(PriceIn))
                          => Column(out.frame, FeatCol(w, f))[p] = Float(0)

C9_Witness ==
    /\ MergeCalled /\ NoEvents /\ news_file.readable /\ Usable
    /\ NRows(PriceIn) = 2 /\ Len(Windows) = 2
    /\ ~ToDatetimeRaises(StampsIn)
    /\ out = Returned(PriceIn)

----------------------------------------------------------------------------
(* Properties of analyze_sentiment (under SpecSent) *)

Scored == { analysed[i] : i \in 1..Len(analysed) }

\* C12: whatever method is asked for ('auto', 'finbert' or 'textblob'), the
\* category of a scored text follows from its polarity by strict thresholds:
\* positive when polarity > 0.1, negative when polarity < -0.1, neutral
\* otherwise, a polarity of exactly 0.1 or -0.1 included.
C12_StrictThresholds ==
    \A sc \in Scored :
        /\ (sc.result.sentiment = "positive") <=> (10 * sc.result.polarity > PolarityScale)
        /\ (sc.result.sentiment = "negative") <=> (10 * sc.result.polarity < -PolarityScale)
        /\ (sc.result.sentiment = "neutral") <=>
              (/\ 10 * sc.result.polarity <= PolarityScale
               /\ 10 * sc.result.polarity >= -PolarityScale)

\* polarity 0.10001 asked with 'finbert' is positive, polarity exactly 0.1
\* asked with 'auto' is neutral
C12_Witness ==
    /\ Len(analysed) = 2
    /\ analysed[1].method = "finbert"
    /\ analysed[1].result = [sentiment |-> "positive", polarity |-> 10001, method |-> "textblob"]
    /\ analysed[2].method = "auto"
    /\ analysed[2].result = [sentiment |-> "neutral", polarity |-> 10000, method |-> "textblob"]

----------------------------------------------------------------------------
(* Properties of add_sentiment_momentum (under SpecMom) *)

MomentumCalled == call.op = "add_sentiment_momentum"
\* the windows whose derived columns the returned frame carries
DerivedWindows ==
    { w \in FrameWindowChoices :
        out.status = "returned" /\ HasCol(out.frame, FeatCol(w, "sentiment_momentum")) }
AvgOf(w) == Column(out.frame, FeatCol(w, "sentiment_avg"))
MomentumOf(w) == Column(out.frame, FeatCol(w, "sentiment_momentum"))
TrendOf(w) == Column(out.frame, FeatCol(w, "sentiment_trend"))
AccelerationOf(w) == Column(out.frame, FeatCol(w, "sentiment_acceleration"))

\* C15: momentum[i] = sentiment_avg[i] - sentiment_avg[i-1] at every row
\* but the first, whose momentum is the missing-value marker, not zero; the
\* series 0.1, 0.3, 0.3, -0.2 gives missing, 0.2, 0.0, -0.5.
C15_Momentum ==
    \A w \in DerivedWindows :
        /\ Len(MomentumOf(w)) = Len(AvgOf(w))
        /\ \A i \in 1..Len(AvgOf(w)) :
              IF i = 1 THEN IsNaN(MomentumOf(w)[i])
              ELSE IF IsNaN(AvgOf(w)[i]) \/ IsNaN(AvgOf(w)[i - 1]) THEN IsNaN(MomentumOf(w)[i])
              ELSE /\ ~IsNaN(MomentumOf(w)[i])
                   /\ FAdd(AvgOf(w)[i - 1], MomentumOf(w)[i]) = AvgOf(w)[i]
        /\ AvgOf(w) = <<Float(1), Float(3), Float(3), Float(-2)>>
              => MomentumOf(w) = <<NaN, Float(2), Float(0), Float(-5)>>

C15_Witness ==
    /\ MomentumCalled
    /\ call.window_hours \in DerivedWindows
    /\ AvgOf(call.window_hours) = <<Float(1), Float(3), Float(3), Float(-2)>>
    /\ MomentumOf(call.window_hours) = <<NaN, Float(2), Float(0), Float(-5)>>

\* C16 as claimed: acceleration[i] = momentum[i] - momentum[i-1] at every
\* row from the third on, and acceleration is the missing-value marker at
\* exactly the first two rows.
C16_Acceleration ==
    \A w \in DerivedWindows :
        /\ Len(AccelerationOf(w)) = Len(AvgOf(w))
        /\ \A i \in 1..Len(AvgOf(w)) :
              IF i <= 2 THEN IsNaN(AccelerationOf(w)[i])
              ELSE /\ ~IsNaN(AccelerationOf(w)[i])
                   /\ FAdd(MomentumOf(w)[i - 1], AccelerationOf(w)[i]) = MomentumOf(w)[i]

\* rows lo..hi of a series
Rows(x, lo, hi) == [ j \in 1..(hi - lo + 1) |-> x[lo + j - 1] ]
TrailingStart(i) == IF i - (RollingWindow - 1) < 1 THEN 1 ELSE i - (RollingWindow - 1)

\* C17 as claimed: trend[i] is the mean of sentiment_avg over the rows
\* max(0, i-9)..i, so trend is defined at every row and trend[0] equals
\* sentiment_avg[0].
C17_Trend ==
    \A w \in DerivedWindows :
        /\ Len(TrendOf(w)) = Len(AvgOf(w))
        /\ \A i \in 1..Len(AvgOf(w)) :
              LET sum == FSum(Rows(AvgOf(w), TrailingStart(i), i))
                  count == i - TrailingStart(i) + 1
              IN  /\ ~IsNaN(TrendOf(w)[i])
                  /\ TrendOf(w)[i] = Frac(sum.n, sum.d * count)
        /\ Len(AvgOf(w)) > 0 => TrendOf(w)[1] = AvgOf(w)[1]

AvgMissing == ~HasCol(call.df_price, FeatCol(call.window_hours, "sentiment_avg"))

\* C18: asked for a window whose sentiment_avg column is not in the frame,
\* add_sentiment_momentum returns the frame as it was (no column added,
\* removed or changed) and does not raise; in merge_price_and_news the
\* windows without that column are passed over and the call still returns,
\* with the derived columns of exactly the windows that have it.
C18_MissingColumnNoOp ==
    /\ (MomentumCalled /\ AvgMissing) => out = Returned(call.df_price)
    /\ (MergeCalled /\ ~Usable) => out = Returned(PriceIn)
    /\ (MergeCalled /\ out.status = "returned") =>
          \A w \in WindowSet :
              /\ HasCol(out.frame, FeatCol(w, "sentiment_avg"))
                    <=> HasCol(out.frame, FeatCol(w, "sentiment_momentum"))
              /\ HasCol(out.frame, FeatCol(w, "sentiment_avg"))
                    <=> HasCol(out.frame, FeatCol(w, "sentiment_trend"))
              /\ HasCol(out.frame, FeatCol(w, "sentiment_avg"))
                    <=> HasCol(out.frame, FeatCol(w, "sentiment_acceleration"))

\* a frame of two rows carrying the 24-hour sentiment_avg, asked for the
\* 1-hour window
C18_Witness ==
    /\ MomentumCalled
    /\ call.window_hours = 1
    /\ HasCol(call.df_price, FeatCol(24, "sentiment_avg"))
    /\ NRows(call.df_price) = 2
    /\ AvgMissing
    /\ out = Returned(call.df_price)

----------------------------------------------------------------------------
(* Properties of repeated calls (under SpecTwice) and of the caller's      *)
(* frames (under Spec)                                                     *)

CalledAgain == call.op = "add_sentiment_features" /\ earlier.call.op = "add_sentiment_features"

----------------------------------------------------------------------------
(* Properties of SpecMT5 *)

\* C22: when an attempt to initialize the MT5 connection fails, initialize
\* makes another attempt before reporting failure: a call of
\* MT5Collector.initialize that returned False after trying mt5.initialize
\* has tried it at least twice.
C22_RetriesOnFailure ==
    ( /\ mt5_last.op = "initialize"
      /\ mt5_last.result = "False"
      /\ CountEq(mt5_last.calls, "initialize") >= 1 )
        => CountEq(mt5_last.calls, "initialize") >= 2

\* C25: a collect_timeframe whose initialize succeeded calls shutdown last
\* on every path and leaves its collector with connected = False; shutdown
\* on a collector that is not connected makes no MT5 call.
C25_ShutdownOnEveryPath ==
    /\ (mt5_last.op = "collect_timeframe" /\ mt5_last.initialized)
          => /\ mt5_last.calls # <<>>
             /\ mt5_last.calls[Len(mt5_last.calls)] = "shutdown"
             /\ CountEq(mt5_last.calls, "shutdown") = 1
             /\ ~collector.connected
             /\ ~mt5_last.raised
    /\ (mt5_last.op = "shutdown" /\ ~mt5_last.before.connected)
          => mt5_last.calls = <<>> /\ ~collector.connected

\* an exception after the data was collected: shutdown still comes last
C25_Witness ==
    /\ mt5_last.op = "collect_timeframe"
    /\ mt5_last.initialized
    /\ mt5_last.result = "None"
    /\ mt5_last.calls = <<"initialize", "account_info", "symbol_info",
                          "copy_rates_range", "shutdown">>

\* C26: on a collector whose connected flag is False check_symbol returns
\* False and the two collect methods return None without any MT5 call, and
\* connected is True exactly from a fully successful initialize to the next
\* shutdown.
C26_DisconnectedGuards ==
    /\ (mt5_last.op = "check_symbol" /\ ~mt5_last.before.connected)
          => mt5_last.result = "False" /\ mt5_last.calls = <<>> /\ ~mt5_last.raised
    /\ (mt5_last.op \in {"collect_historical_data", "collect_recent_data"}
           /\ ~mt5_last.before.connected)
          => mt5_last.result = "None" /\ mt5_last.calls = <<>> /\ ~mt5_last.raised
    /\ collector.connected = mt5.established

\* a collect on a collector that an earlier operation left disconnected
C26_Witness ==
    /\ mt5_last.op = "collect_recent_data"
    /\ ~mt5_last.before.connected
    /\ mt5.ops = 2
    /\ mt5_last.result = "None"

----------------------------------------------------------------------------
(* Properties of SpecSave *)

RepeatsUrl(rows) == \E i, j \in 1..Len(rows) : i < j /\ rows[i].url = rows[j].url

\* C24: after any sequence of save_news calls with non-empty batches,
\* starting from no master file, the master file never holds two rows
\* with the same URL.
C24_MasterUrlsUnique ==
    master_file.exists => ~RepeatsUrl(master_file.rows)

----------------------------------------------------------------------------
(* Properties of SpecUpd *)

Updated == upd_last.op = "update_once"
LastLookback == lookbacks[Len(lookbacks)]

\* the earliest instant a request asks for: a bound without a time of day
\* starts at the beginning of its day
EarliestRequested(request) ==
    request.from.day * MinutesPerDay
        + (IF request.from.minute = "none" THEN 0 ELSE request.from.minute)

\* C23: the request fetch_recent_news(minutes_back = m) sends asks for
\* nothing older than now - m minutes: its from bound is that instant, to
\* the minute.
C23_RequestKeepsMinutes ==
    (Updated /\ upd_last.request.sent)
        => EarliestRequested(upd_last.request) = LastLookback.from_date

\* C27: the first update_once looks back 60 minutes and every later one
\* interval_minutes + 5, whatever the earlier updates met, and each
\* lookback range starts no later than the one before it ended.
C27_LookbacksOverlap ==
    /\ \A i \in 1..Len(lookbacks) :
          lookbacks[i].minutes_back =
              IF i = 1 THEN 60 ELSE updater.interval_minutes + 5
    /\ \A i \in 1..(Len(lookbacks) - 1) :
          lookbacks[i + 1].from_date <= lookbacks[i].to_date

SaveCompleted ==
    /\ upd_last.env.api = "ok"
    /\ upd_last.env.articles # <<>>
    /\ upd_last.env.fails \notin {"fetch", "master", "daily"}

\* C28: update_once never propagates an exception of a failing step, the
\* loop goes on to its sleep, update_count grows by exactly one on every
\* call, and total_articles grows by the batch size exactly when a
\* non-empty batch was saved to the end.
C28_UpdateNeverPropagates ==
    Updated =>
        /\ ~upd_last.propagated
        /\ upd_last.pc \in {"sleep", "ready"}
        /\ updater.update_count = upd_last.before.update_count + 1
        /\ updater.total_articles =
              upd_last.before.total_articles
                  + (IF SaveCompleted THEN Len(upd_last.env.articles) ELSE 0)

\* an update that failed while writing the daily file, after an earlier
\* update, and the loop slept after it
C28_Witness ==
    /\ Updated
    /\ Len(lookbacks) = 2
    /\ upd_last.env.api = "ok"
    /\ upd_last.env.articles # <<>>
    /\ upd_last.env.fails = "daily"
    /\ upd_last.pc = "ready"

----------------------------------------------------------------------------
(* Properties of SpecTime *)

\* C29: is_first_5_days is 1 exactly for the days 1..5 of the month, and
\* is_last_5_days is 1 exactly for the last 5 calendar days of the month,
\* day_of_month > days_in_month - 5, for every month length 28..31.
C29_FirstAndLastFiveDays ==
    tf_out.computed =>
        /\ tf_out.columns.is_first_5_days = 1 <=> tf_row.day_of_month \in 1..5
        /\ tf_out.columns.is_last_5_days = 1
              <=> tf_row.day_of_month > tf_row.days_in_month - 5

----------------------------------------------------------------------------
(* Properties of SpecPerm *)

Reaggregated == earlier.call.op = "aggregate_sentiment"

====
